---- MODULE Spec2Model ----
(***************************************************************************)
(* Better Burp Timer Script (timer_script.py): the evaluation of a ruleset *)
(* of timer_arg lines by check_conditions and Conditions.match.            *)
(*                                                                         *)
(* Instants are seconds since Monday 2001-01-01 00:00:00 UTC.  A time zone *)
(* is a fixed UTC offset in seconds.  An aware datetime is a record        *)
(* [inst, off]: the instant and the offset of its tzinfo.                  *)
(*                                                                         *)
(* A text (one shell word, or one comma-separated item of it) is a record  *)
(* whose field k names its lexical shape:                                  *)
(*   [k |-> "tod", d, h, m, s]      days, hours, minutes, seconds          *)
(*   [k |-> "iv", start, end]       <text>..<text>                         *)
(*   [k |-> "dur", number, unit]    <digits><letter>                       *)
(*   [k |-> "wd", name]             a word                                 *)
(*   [k |-> "net", a, prefix]       a.b.c.d/prefix, a the four octets      *)
(*   [k |-> "off", sign, hh, mm]    +HHMM or -HHMM                         *)
(*   [k |-> "dash"]                 the one character -                    *)
(*   [k |-> "empty"]                the empty string ''                    *)
(*   [k |-> "bad"]                  a word that matches none of the above  *)
(***************************************************************************)
EXTENDS Integers, Sequences, FiniteSets, TLC

-----------------------------------------------------------------------------
(* Units *)

Minute == 60
Hour == 3600
Day == 86400

H(n) == n * Hour

\* parse_burp_duration's __unit_to_seconds
UnitToSeconds(unit) ==
    CASE unit = "s" -> 1
      [] unit = "m" -> Minute
      [] unit = "h" -> Hour
      [] unit = "d" -> Day
      [] unit = "w" -> 7 * Day
      [] unit = "n" -> 30 * Day

Units == {"s", "m", "h", "d", "w", "n"}

WEEKDAYS == <<"Mon", "Tue", "Wed", "Thu", "Fri", "Sat", "Sun">>

-----------------------------------------------------------------------------
(* Texts *)

Tod(d, h, m, s) == [k |-> "tod", d |-> d, h |-> h, m |-> m, s |-> s]
Hr(h) == Tod(0, h, 0, 0)
Iv(start, end) == [k |-> "iv", start |-> start, end |-> end]
Dur(number, unit) == [k |-> "dur", number |-> number, unit |-> unit]
Wd(name) == [k |-> "wd", name |-> name]
Net(a, prefix) == [k |-> "net", a |-> a, prefix |-> prefix]
Off(sign, hh, mm) == [k |-> "off", sign |-> sign, hh |-> hh, mm |-> mm]
Dash == [k |-> "dash"]
Empty == [k |-> "empty"]
Bad == [k |-> "bad"]

\* the zone token of a timestamp file: `Z`, and a sign with two digits
Zulu == [k |-> "Z"]
OffH(sign, hh) == [k |-> "offh", sign |-> sign, hh |-> hh]

\* Python's truth value of a str: only '' is false
Truthy(text) == text.k # "empty"

-----------------------------------------------------------------------------
(* Lexical parsers.  Each returns [ok, v]; ok = FALSE is the ValueError    *)
(* raised by match_full, tuple.index, strptime or ip_network.              *)

Failed == [ok |-> FALSE, v |-> 0]
Parsed(v) == [ok |-> TRUE, v |-> v]

parse_burp_duration(text) ==
    IF text.k = "dur" /\ text.unit \in Units
    THEN Parsed(text.number * UnitToSeconds(text.unit))
    ELSE Failed

parse_time_of_day(text) ==
    IF text.k = "tod"
    THEN Parsed(text.d * Day + text.h * Hour + text.m * Minute + text.s)
    ELSE Failed

parse_weekday(text) ==
    IF text.k = "wd" /\ \E i \in 1..Len(WEEKDAYS) : WEEKDAYS[i] = text.name
    THEN Parsed((CHOOSE i \in 1..Len(WEEKDAYS) : WEEKDAYS[i] = text.name) - 1)
    ELSE Failed

parse_time_of_day_interval(text) ==
    IF text.k = "iv"
    THEN LET s == parse_time_of_day(text.start)
             e == parse_time_of_day(text.end)
         IN  IF s.ok /\ e.ok
             THEN [ok |-> TRUE, v |-> 0, start |-> s.v, end |-> e.v]
             ELSE [ok |-> FALSE, v |-> 0, start |-> 0, end |-> 0]
    ELSE [ok |-> FALSE, v |-> 0, start |-> 0, end |-> 0]

\* parse_timezone_offset: '-' is None (<<>>), otherwise strptime(text, '%z')
parse_timezone_offset(text) ==
    IF text.k = "dash" THEN [ok |-> TRUE, tz |-> <<>>]
    ELSE IF text.k = "off"
         THEN [ok |-> TRUE, tz |-> <<text.sign * (text.hh * Hour + text.mm * Minute)>>]
         ELSE [ok |-> FALSE, tz |-> <<>>]

-----------------------------------------------------------------------------
(* IPv4 addresses: four octets *)

RECURSIVE Pow2(_)
Pow2(n) == IF n = 0 THEN 1 ELSE 2 * Pow2(n - 1)

\* the first `bits` bits of octet sequence a, as a sequence of 4 numbers
MaskOctet(o, bits) ==
    IF bits >= 8 THEN o
    ELSE IF bits <= 0 THEN 0
    ELSE (o \div Pow2(8 - bits)) * Pow2(8 - bits)

Masked(a, prefix) == [i \in 1..4 |-> MaskOctet(a[i], prefix - 8 * (i - 1))]

\* ipaddress.ip_network(text): ValueError when host bits are set
ip_network(text) ==
    IF text.k = "net" /\ text.prefix \in 0..32 /\ Masked(text.a, text.prefix) = text.a
    THEN [ok |-> TRUE, v |-> 0, a |-> text.a, prefix |-> text.prefix]
    ELSE [ok |-> FALSE, v |-> 0, a |-> <<0, 0, 0, 0>>, prefix |-> 0]

InNetwork(addr, net) == Masked(addr, net.prefix) = net.a

\* ipaddress.ip_address(...).is_private, for the ranges the model's addresses fall in
is_private(addr) ==
    \/ InNetwork(addr, [a |-> <<10, 0, 0, 0>>, prefix |-> 8])
    \/ InNetwork(addr, [a |-> <<172, 16, 0, 0>>, prefix |-> 12])
    \/ InNetwork(addr, [a |-> <<192, 168, 0, 0>>, prefix |-> 16])
    \/ InNetwork(addr, [a |-> <<127, 0, 0, 0>>, prefix |-> 8])
    \/ InNetwork(addr, [a |-> <<169, 254, 0, 0>>, prefix |-> 16])

-----------------------------------------------------------------------------
(* The world of one session: the frozen instant, the zone, the requester,  *)
(* the backup directory, and the rulesets of the successive invocations.   *)

VARIABLES
    calls,          \* the argument_strings of each invocation: Seq(ruleset)
    now,            \* CURRENT_DATETIME, as an instant
    tzlocal,        \* the offset of CURRENT_DATETIME.tzinfo (the local zone)
    addr,           \* os.environ['REMOTE_ADDR']
    fs,             \* the files of the backup directory
    run,            \* index of the current invocation in calls
    pc,             \* position in check_conditions
    li,             \* index of the current argument_string
    client_created, \* Backup.client_created: <<>> (None) or <<instant>>
    arguments,      \* the parsed arguments of the current line (a dict)
    environment,    \* check_conditions' environment dict
    conditions,     \* the Conditions object: verbose, timezone, matched_date
    out,            \* what the current invocation has printed
    results,        \* the outcome of each finished invocation
    hist            \* one record per Conditions.match call of this invocation

vars == <<calls, now, tzlocal, addr, fs, run, pc, li, client_created,
          arguments, environment, conditions, out, results, hist>>

ruleset == calls[run]

-----------------------------------------------------------------------------
(* Timestamp files *)

\* a timestamp file: the naive wall-clock seconds and the zone token after it
TimestampFile(wall, zone) == [wall |-> wall, zone |-> zone]

\* read_timestamp: the zone token decides the tzinfo
read_timestamp(file) ==
    LET z == file.zone IN
    CASE z.k = "empty" -> [ok |-> TRUE, inst |-> file.wall - tzlocal]
      [] z.k = "Z"     -> [ok |-> TRUE, inst |-> file.wall]
      [] z.k = "off"   -> [ok |-> TRUE,
                           inst |-> file.wall - z.sign * (z.hh * Hour + z.mm * Minute)]
      [] z.k = "offh"  -> [ok |-> TRUE, inst |-> file.wall - z.sign * z.hh * Hour]
      [] OTHER         -> [ok |-> FALSE, inst |-> 0]

-----------------------------------------------------------------------------
(* Backup *)

is_new == ~fs.exists

is_continued ==
    IF is_new THEN FALSE
    ELSE IF fs.resumed THEN TRUE
    ELSE fs.log = "interrupted"

\* __new_timestamp: 2001-01-01 00:00:00 in the zone of CURRENT_DATETIME
NewTimestamp == 0 - tzlocal

get_timestamp ==
    IF is_new THEN [ok |-> TRUE, inst |-> NewTimestamp]
    ELSE read_timestamp(fs.timestamp)

\* Backup.__get_client_created_timestamp: the files after the call, and what is read
CreatedFile == TimestampFile(now + tzlocal, Empty)

\* (mutant) `created` is written whenever `.created` is missing
FsAfterCreatedOverwriting ==
    IF fs.dotcreated # <<>> THEN fs
    ELSE [fs EXCEPT !.created = <<CreatedFile>>]

FsAfterCreated ==
    IF fs.dotcreated # <<>> \/ fs.created # <<>> THEN fs
    ELSE [fs EXCEPT !.created = <<CreatedFile>>]

\* (mutant) `created` is looked at before `.created`
get_client_created_timestamp_plain ==
    IF fs.created # <<>> THEN read_timestamp(fs.created[1])
    ELSE IF fs.dotcreated # <<>> THEN read_timestamp(fs.dotcreated[1])
    ELSE read_timestamp(FsAfterCreated.created[1])

get_client_created_timestamp ==
    IF fs.dotcreated # <<>> THEN read_timestamp(fs.dotcreated[1])
    ELSE read_timestamp(FsAfterCreated.created[1])

init_exceeds(maximum_age) ==
    is_new /\ now > client_created[1] + maximum_age

\* (mutant) the comparison is not strict
age_exceeds_or_equal(timestamp, maximum_age) ==
    now >= timestamp + maximum_age

age_exceeds(timestamp, maximum_age) ==
    now > timestamp + maximum_age

-----------------------------------------------------------------------------
(* Conditions: the anchor date and the day-related calls *)

\* (mutant) astimezone() without its argument: always the local zone
TzOffsetLocal(timezone) == tzlocal

TzOffset(timezone) == IF timezone = <<>> THEN tzlocal ELSE timezone[1]

\* replace_time(CURRENT_DATETIME.astimezone(timezone) - time_of_day, midnight)
MatchedDate(timezone, time_of_day) ==
    LET off == TzOffset(timezone)
    IN  [inst |-> ((now + off - time_of_day) \div Day) * Day - off, off |-> off]

weekday(matched_date) == ((matched_date.inst + matched_date.off) \div Day) % 7

\* (mutant) the comparison is not strict
prior_before_or_at(matched_date, time_of_day, timestamp) ==
    matched_date.inst + time_of_day >= timestamp

prior_before(matched_date, time_of_day, timestamp) ==
    matched_date.inst + time_of_day > timestamp

\* (mutant) the argument is ignored: the anchor is always today
match_date_today(st, time_of_day) ==
    [st EXCEPT !.matched_date = MatchedDate(st.timezone, 0),
               !.writes = @ + 1]

\* match_date: sets self.matched_date (and counts the write)
match_date(st, time_of_day) ==
    [st EXCEPT !.matched_date = MatchedDate(st.timezone, time_of_day),
               !.writes = @ + 1]

\* (mutant) the end of the interval is included
match_time_interval_inclusive(matched_date, interval) ==
    now <= matched_date.inst + interval.end

match_time_interval(matched_date, interval) ==
    now < matched_date.inst + interval.end

\* (mutant) the start of the interval is excluded
check_time_interval_open(matched_date, interval) ==
    /\ matched_date.inst + interval.start < now
    /\ now < matched_date.inst + interval.end

\* (mutant) the interval is laid on today's date, not on the anchor
check_time_interval_unanchored(matched_date, interval) ==
    /\ MatchedDate(<<>>, 0).inst + interval.start <= now
    /\ now < MatchedDate(<<>>, 0).inst + interval.end

\* (mutant) the bounds are put in order before they are compared
check_time_interval_unordered(matched_date, interval) ==
    \/ /\ matched_date.inst + interval.start <= now
       /\ now < matched_date.inst + interval.end
    \/ /\ matched_date.inst + interval.end <= now
       /\ now < matched_date.inst + interval.start

check_time_interval(matched_date, interval) ==
    /\ matched_date.inst + interval.start <= now
    /\ now < matched_date.inst + interval.end

-----------------------------------------------------------------------------
(* The condition registry and the parser built from it *)

\* (mutant) weekday registered ahead of the anchor-setting conditions
get_conditions_weekday_first == <<
    [name |-> "new",          type |-> "bool"],
    [name |-> "continued",    type |-> "bool"],
    [name |-> "lan",          type |-> "bool"],
    [name |-> "subnet",       type |-> "list"],
    [name |-> "weekday",      type |-> "list"],
    [name |-> "after",        type |-> "scalar"],
    [name |-> "time",         type |-> "list"],
    [name |-> "not_time",     type |-> "list"],
    [name |-> "init_exceeds", type |-> "scalar"],
    [name |-> "age_exceeds",  type |-> "scalar"],
    [name |-> "prior_before", type |-> "scalar"] >>

\* Conditions.__get_conditions, in evaluation order
get_conditions == <<
    [name |-> "new",          type |-> "bool"],
    [name |-> "continued",    type |-> "bool"],
    [name |-> "lan",          type |-> "bool"],
    [name |-> "subnet",       type |-> "list"],
    [name |-> "after",        type |-> "scalar"],
    [name |-> "time",         type |-> "list"],
    [name |-> "not_time",     type |-> "list"],
    [name |-> "weekday",      type |-> "list"],
    [name |-> "init_exceeds", type |-> "scalar"],
    [name |-> "age_exceeds",  type |-> "scalar"],
    [name |-> "prior_before", type |-> "scalar"] >>

\* name = 'not_' + name
NotName(name) ==
    CASE name = "new"          -> "not_new"
      [] name = "continued"    -> "not_continued"
      [] name = "lan"          -> "not_lan"
      [] name = "subnet"       -> "not_subnet"
      [] name = "weekday"      -> "not_weekday"
      [] name = "init_exceeds" -> "not_init_exceeds"
      [] name = "age_exceeds"  -> "not_age_exceeds"
      [] name = "prior_before" -> "not_prior_before"

\* name.startswith('not_')
StartsWithNot(name) ==
    name \in {"not_new", "not_continued", "not_lan", "not_subnet", "not_time",
              "not_weekday", "not_init_exceeds", "not_age_exceeds",
              "not_prior_before"}

\* (mutant) the inversion pass is skipped
NamesNoInversion(condition) == <<condition.name>>

\* the names the `for invert in (False, True)` loop goes through for a condition
Names(condition) ==
    IF condition.name \in {"after", "time", "not_time"}
    THEN <<condition.name>>
    ELSE <<condition.name, NotName(condition.name)>>

\* (mutant) add_arguments registers --not-after as well
ArgumentNamesWithNotAfter(condition) ==
    IF condition.name = "after" THEN {"after", "not_after"}
    ELSE IF condition.name \in {"time", "not_time"} THEN {condition.name}
    ELSE {condition.name, NotName(condition.name)}

\* the dests Conditions.add_arguments registers for a condition (its own
\* `for invert` loop)
ArgumentNames(condition) ==
    IF condition.name \in {"after", "time", "not_time"}
    THEN {condition.name}
    ELSE {condition.name, NotName(condition.name)}

\* the argparse action of each dest: Conditions.add_arguments and create_parser
ConditionDests ==
    UNION {{<<name,
              CASE get_conditions[i].type = "bool" -> "store_true"
                [] get_conditions[i].type = "list" -> "append"
                [] OTHER -> "store">> :
            name \in ArgumentNames(get_conditions[i])} : i \in 1..Len(get_conditions)}

Dests ==
    ConditionDests \cup {<<"utc_offset", "store">>, <<"verbose", "store_true">>,
                         <<"stop", "store_true">>}

DestNames == {d[1] : d \in Dests}
ActionOf(dest) == (CHOOSE d \in Dests : d[1] = dest)[2]

\* shlex.split(argument_string, comments = True): a word starting with # ends the line
RECURSIVE shlex_split(_)
shlex_split(line) ==
    IF line = <<>> \/ line[1].opt = "#" THEN <<>>
    ELSE <<line[1]>> \o shlex_split(Tail(line))

\* vars(parser.parse_args(words)): absent is <<>> (None or False); store_true is
\* <<<<>>>> (True); store keeps the last value; append keeps them all, in order
parse_args(words) ==
    [dest \in DestNames |->
        LET occ == SelectSeq(words, LAMBDA t : t.opt = dest)
        IN  IF occ = <<>> THEN <<>>
            ELSE CASE ActionOf(dest) = "store_true" -> << <<>> >>
                   [] ActionOf(dest) = "store"      -> <<occ[Len(occ)].val>>
                   [] ActionOf(dest) = "append"     -> [i \in 1..Len(occ) |-> occ[i].val]]

\* dict.pop(name, None): the dict without the key
Pop(dict, name) == [key \in (DOMAIN dict) \ {name} |-> dict[key]]

\* dict.get(name, None)
Get(dict, name) == IF name \in DOMAIN dict THEN dict[name] ELSE <<>>

-----------------------------------------------------------------------------
(* Evaluation of the conditions of one line.  The evaluation state st is   *)
(* the Conditions object plus the locals of match: arguments, found        *)
(* (condition_found), out (printed), and the logs ctrace (one entry per    *)
(* option evaluated) and itrace (one entry per call of a condition, with   *)
(* its argument and the anchor date before and after the call).            *)

Ret(res, st) == [res |-> res, err |-> "", st |-> st]
Raise(err, st) == [res |-> FALSE, err |-> err, st |-> st]
Say(st, msg) == [st EXCEPT !.out = Append(@, msg)]

Outcome(r) == IF r.err # "" THEN "E" ELSE IF r.res THEN "T" ELSE "F"

NoText == [k |-> "none"]

Logged(name, k, text, st, r) ==
    [r EXCEPT !.st.itrace = Append(@, [n |-> name, i |-> k, r |-> Outcome(r),
                                       arg |-> text,
                                       before |-> st.matched_date,
                                       after |-> r.st.matched_date])]

\* condition.call of the three bool conditions
call_bool(name) ==
    CASE name = "new"       -> is_new
      [] name = "continued" -> is_continued
      [] name = "lan"       -> is_private(addr)

\* convert_call(condition.call, type)(argument): the conversion, then the call
convert_call(name, text, st) ==
    CASE name = "subnet" ->
            LET p == ip_network(text)
            IN  IF p.ok THEN Ret(InNetwork(addr, p), st) ELSE Raise("FormatError", st)
      [] name = "after" ->
            LET p == parse_time_of_day(text)
            IN  IF p.ok THEN Ret(TRUE, match_date(st, p.v)) ELSE Raise("FormatError", st)
      [] name = "time" ->
            LET p == parse_time_of_day_interval(text)
                st1 == match_date(st, p.start)
            IN  IF p.ok THEN Ret(match_time_interval(st1.matched_date, p), st1)
                ELSE Raise("FormatError", st)
      [] name = "not_time" ->
            LET p == parse_time_of_day_interval(text)
            IN  IF p.ok THEN Ret(check_time_interval(st.matched_date, p), st)
                ELSE Raise("FormatError", st)
      [] name = "weekday" ->
            LET p == parse_weekday(text)
            IN  IF p.ok THEN Ret(weekday(st.matched_date) = p.v, st)
                ELSE Raise("FormatError", st)
      [] name = "init_exceeds" ->
            LET p == parse_burp_duration(text)
            IN  IF p.ok THEN Ret(init_exceeds(p.v), st) ELSE Raise("FormatError", st)
      [] name = "age_exceeds" ->
            LET p == parse_burp_duration(text)
                t == get_timestamp
            IN  IF ~p.ok THEN Raise("FormatError", st)
                ELSE IF ~t.ok THEN Raise("TimestampError", st)
                ELSE Ret(age_exceeds(t.inst, p.v), st)
      [] name = "prior_before" ->
            LET p == parse_time_of_day(text)
                t == get_timestamp
            IN  IF ~p.ok THEN Raise("FormatError", st)
                ELSE IF ~t.ok THEN Raise("TimestampError", st)
                ELSE Ret(prior_before(st.matched_date, p.v, t.inst), st)

\* ','.join(value_strings).split(',')
RECURSIVE JoinSplit(_)
JoinSplit(value_strings) ==
    IF value_strings = <<>> THEN <<>>
    ELSE value_strings[1] \o JoinSplit(Tail(value_strings))

\* Conditions.disjunction(condition)(value_strings), from item k on
RECURSIVE disjunction(_, _, _, _, _)

\* (mutant) every item is evaluated, as any() over a list would do
OrResult(r, rest) ==
    IF rest.err # "" THEN rest ELSE [rest EXCEPT !.res = r.res \/ rest.res]

DisjunctionItemExhaustive(condition_name, name, items, k, r) ==
    IF r.err # "" THEN r
    ELSE OrResult(r, disjunction(condition_name, name, items, k + 1, r.st))

\* the body of the `for value_string` loop once condition(value_string) gave r
DisjunctionItem(condition_name, name, items, k, r) ==
    IF r.err # "" THEN r
    ELSE IF r.res
         THEN Ret(TRUE, IF r.st.verbose /\ Len(items) > 1
                        THEN Say(r.st, "Matched item") ELSE r.st)
         ELSE disjunction(condition_name, name, items, k + 1, r.st)

disjunction(condition_name, name, items, k, st) ==
    IF k > Len(items) THEN Ret(FALSE, st)
    ELSE DisjunctionItem(condition_name, name, items, k,
                         Logged(name, k, items[k], st,
                                convert_call(condition_name, items[k], st)))

\* (mutant) the wrapper returns the condition's own result
negationDropped(r) == r

\* negation(condition)
negation(r) == IF r.err # "" THEN r ELSE [r EXCEPT !.res = ~r.res]

\* call_function(*call_arguments) as built by lines 334-344
Inverted(name, r) == IF StartsWithNot(name) THEN negation(r) ELSE r

call_function(condition, name, argument_value, st) ==
    Inverted(name,
             CASE condition.type = "bool" ->
                    Logged(name, 0, NoText, st, Ret(call_bool(condition.name), st))
               [] condition.type = "list" ->
                    disjunction(condition.name, name, JoinSplit(argument_value), 1, st)
               [] OTHER ->
                    Logged(name, 1, argument_value[1][1], st,
                           convert_call(condition.name, argument_value[1][1], st)))

Go(st) == [ret |-> "go", err |-> "", st |-> st]

CLog(st, name, r) == [st EXCEPT !.ctrace = Append(@, [n |-> name, r |-> r])]

\* one pass of the `for invert` body: pop the option and evaluate it if present
\* lines 350-352: what the loop does with the result r of call_function
Called(name, r) ==
    IF r.err # ""
    THEN [ret |-> "raise", err |-> r.err, st |-> CLog(r.st, name, "E")]
    ELSE IF ~r.res
    THEN [ret |-> "False", err |-> "",
          st |-> CLog(IF r.st.verbose THEN Say(r.st, "Failed condition") ELSE r.st,
                      name, "F")]
    ELSE Go(CLog(r.st, name, "T"))

EvalName(condition, name, st) ==
    IF Get(st.arguments, name) = <<>>
    THEN Go([st EXCEPT !.arguments = Pop(@, name)])
    ELSE Called(name, call_function(condition, name, Get(st.arguments, name),
                                    [st EXCEPT !.arguments = Pop(@, name),
                                               !.found = TRUE]))

RECURSIVE EvalNames(_, _, _, _)

\* go on with the next name unless the line is decided
NextName(condition, names, k, r) ==
    IF r.ret # "go" THEN r ELSE EvalNames(condition, names, k + 1, r.st)

EvalNames(condition, names, k, st) ==
    IF k > Len(names) THEN Go(st)
    ELSE NextName(condition, names, k, EvalName(condition, names[k], st))

\* the `for condition in self.conditions` loop, from registry index ci on
RECURSIVE EvalConditions(_, _)

\* go on with the next condition unless the line is decided
NextCondition(ci, r) ==
    IF r.ret # "go" THEN r ELSE EvalConditions(ci + 1, r.st)

EvalConditions(ci, st) ==
    IF ci > Len(get_conditions) THEN Go(st)
    ELSE NextCondition(ci, EvalNames(get_conditions[ci], Names(get_conditions[ci]), 1, st))

-----------------------------------------------------------------------------
(* Conditions.match *)

EmptyDict == [key \in {} |-> TRUE]

\* environment.update(environment_arguments)
Update(env, environment_arguments) ==
    [verbose  |-> IF "verbose" \in DOMAIN environment_arguments
                  THEN environment_arguments["verbose"] ELSE env.verbose,
     timezone |-> IF "timezone" \in DOMAIN environment_arguments
                  THEN environment_arguments["timezone"] ELSE env.timezone]

\* the truth value of arguments.get('after', None) and arguments.get('time', None)
AfterIsSet(args) == Get(args, "after") # <<>> /\ Truthy(Get(args, "after")[1][1])
TimeIsSet(args) == Get(args, "time") # <<>>

Incompatible(args) == AfterIsSet(args) /\ TimeIsSet(args)

\* `if utc_offset:` for the popped value
UtcOffsetIsSet(utc_offset) == utc_offset # <<>> /\ Truthy(utc_offset[1][1])

MatchReturn(ret, err, env, st) ==
    [ret |-> ret, err |-> err, arguments |-> st.arguments, environment |-> env,
     conditions |-> [verbose |-> st.verbose, timezone |-> st.timezone,
                     matched_date |-> st.matched_date],
     out |-> st.out, ctrace |-> st.ctrace, itrace |-> st.itrace,
     writes |-> st.writes, found |-> st.found]

\* (mutant) the update is done whether or not a condition was found
EnvironmentAfterAlways(env, environment_arguments, condition_found) ==
    Update(env, environment_arguments)

\* the environment dict when match returns (lines 352, 360-366): updated only
\* when no condition was found
EnvironmentAfter(env, environment_arguments, condition_found) ==
    IF condition_found THEN env ELSE Update(env, environment_arguments)

\* (mutant) a line without conditions is just a line that does not match
MatchEndSilent(condition_found, environment_arguments) ==
    IF condition_found THEN "True" ELSE "False"

\* lines 360-366: what match returns once every condition present has passed
MatchEnd(condition_found, environment_arguments) ==
    IF ~condition_found
    THEN IF DOMAIN environment_arguments = {} THEN "raise" ELSE "False"
    ELSE "True"

\* lines 350-366: how match ends once the loop over the conditions gave r
MatchLoop(env, environment_arguments, r) ==
    IF r.ret = "raise" THEN MatchReturn("raise", r.err, env, r.st)
    ELSE IF r.ret = "False"
    THEN MatchReturn("False", "",
                     EnvironmentAfter(env, environment_arguments, r.st.found), r.st)
    ELSE IF MatchEnd(r.st.found, environment_arguments) = "raise"
    THEN MatchReturn("raise", "NoConditionsError", env, r.st)
    ELSE MatchReturn(MatchEnd(r.st.found, environment_arguments), "",
                     EnvironmentAfter(env, environment_arguments, r.st.found), r.st)

match(args, env, printed) ==
    LET verbose_popped == Get(args, "verbose") # <<>>
        args1 == Pop(args, "verbose")
        ea1 == IF verbose_popped THEN ("verbose" :> TRUE) ELSE EmptyDict
        utc_offset == Get(args1, "utc_offset")
        args2 == Pop(args1, "utc_offset")
        tz == IF UtcOffsetIsSet(utc_offset)
              THEN parse_timezone_offset(utc_offset[1][1])
              ELSE [ok |-> TRUE, tz |-> env.timezone]
        ea2 == IF UtcOffsetIsSet(utc_offset) THEN ("timezone" :> tz.tz) @@ ea1 ELSE ea1
        \* the object when strptime raises: reset() ran, verbose is set
        st_reset == [arguments |-> args2, verbose |-> env.verbose \/ verbose_popped,
                     timezone |-> env.timezone, matched_date |-> MatchedDate(<<>>, 0),
                     writes |-> 0, found |-> FALSE, out |-> printed,
                     ctrace |-> <<>>, itrace |-> <<>>]
        \* the object after line 325
        st0 == [st_reset EXCEPT !.timezone = tz.tz,
                                !.matched_date = MatchedDate(tz.tz, 0)]
    IN  IF ~tz.ok THEN MatchReturn("raise", "FormatError", env, st_reset)
        ELSE IF Incompatible(args2)
        THEN MatchReturn("raise", "IncompatibleOptionsError", env, st0)
        ELSE MatchLoop(env, ea2, EvalConditions(1, st0))

-----------------------------------------------------------------------------
(* check_conditions *)

Finished(ret, err, printed) == [ret |-> ret, err |-> err, out |-> printed]

\* (mutant) `return must_stop`
ReturnValueNotNegated(must_stop) == IF must_stop THEN "proceed" ELSE "do not proceed"

\* (mutant) the stop flag is not looked at
ReturnValueIgnoringStop(must_stop) == "proceed"

\* the value check_conditions returns for a matched line
ReturnValue(must_stop) == IF must_stop THEN "do not proceed" ELSE "proceed"

\* (mutant) the settings of the previous invocation are still there
EnvironmentKept == environment

\* line 408: each invocation starts from its own environment
InitialEnvironment == [verbose |-> FALSE, timezone |-> <<>>]

\* lines 406-408: Backup(prior_path), Conditions(prior_backup), environment
Start ==
    /\ pc = "start"
    /\ LET created == get_client_created_timestamp
       IN  IF is_new
           THEN /\ fs' = FsAfterCreated
                /\ IF created.ok
                   THEN /\ client_created' = <<created.inst>>
                        /\ pc' = "loop"
                        /\ results' = results
                   ELSE /\ client_created' = <<>>
                        /\ pc' = "done"
                        /\ results' = Append(results, Finished("raise", "TimestampError", <<>>))
           ELSE /\ fs' = fs
                /\ client_created' = <<>>
                /\ pc' = "loop"
                /\ results' = results
    /\ conditions' = [verbose |-> FALSE, timezone |-> <<>>,
                      matched_date |-> MatchedDate(<<>>, 0)]
    /\ environment' = InitialEnvironment
    /\ li' = 1
    /\ out' = <<>>
    /\ hist' = <<>>
    /\ arguments' = EmptyDict
    /\ UNCHANGED <<calls, now, tzlocal, addr, run>>

\* line 410: the next argument_string is split and parsed
ParseLine ==
    /\ pc = "loop"
    /\ li <= Len(ruleset)
    /\ arguments' = parse_args(shlex_split(ruleset[li]))
    /\ pc' = "match"
    /\ UNCHANGED <<calls, now, tzlocal, addr, fs, run, li, client_created,
                   environment, conditions, out, results, hist>>

\* line 412: conditions.match(arguments, environment)
Match ==
    /\ pc = "match"
    /\ \E m \in {match(arguments, environment, out)} :
           /\ arguments' = m.arguments
           /\ environment' = m.environment
           /\ conditions' = m.conditions
           /\ out' = m.out
           /\ hist' = Append(hist, [li |-> li, line |-> ruleset[li],
                                    words |-> shlex_split(ruleset[li]),
                                    ret |-> m.ret, err |-> m.err,
                                    ctrace |-> m.ctrace, itrace |-> m.itrace,
                                    writes |-> m.writes, ended |-> m.conditions,
                                    env |-> environment,
                                    env_after |-> m.environment])
           /\ CASE m.ret = "True"  -> /\ pc' = "matched"
                                      /\ li' = li
                                      /\ results' = results
                [] m.ret = "False" -> /\ pc' = "loop"
                                      /\ li' = li + 1
                                      /\ results' = results
                [] OTHER           -> /\ pc' = "done"
                                      /\ li' = li
                                      /\ results' = Append(results, Finished("raise", m.err, m.out))
    /\ UNCHANGED <<calls, now, tzlocal, addr, fs, run, client_created>>

\* lines 413-417: the line matched
Matched ==
    /\ pc = "matched"
    /\ LET printed == IF conditions.verbose THEN Append(out, "Matched") ELSE out
           must_stop == Get(arguments, "stop") # <<>>
           rest == Pop(arguments, "stop")
       IN  /\ out' = printed
           /\ arguments' = rest
           /\ results' = Append(results,
                  IF DOMAIN rest # {}
                  THEN Finished("raise", "AssertionError", printed)
                  ELSE Finished(ReturnValue(must_stop), "", printed))
    /\ pc' = "done"
    /\ UNCHANGED <<calls, now, tzlocal, addr, fs, run, li, client_created,
                   environment, conditions, hist>>

\* lines 419-420: the loop ran out of lines
NothingMatched ==
    /\ pc = "loop"
    /\ li > Len(ruleset)
    /\ LET printed == IF environment.verbose THEN Append(out, "Nothing matched") ELSE out
       IN  /\ out' = printed
           /\ results' = Append(results, Finished("do not proceed", "", printed))
    /\ pc' = "done"
    /\ UNCHANGED <<calls, now, tzlocal, addr, fs, run, li, client_created,
                   arguments, environment, conditions, hist>>

\* the orchestrator invokes the script again, against the same directory
NextCall ==
    /\ pc = "done"
    /\ run < Len(calls)
    /\ run' = run + 1
    /\ pc' = "start"
    /\ UNCHANGED <<calls, now, tzlocal, addr, fs, li, client_created,
                   arguments, environment, conditions, out, results, hist>>

Next == Start \/ ParseLine \/ Match \/ Matched \/ NothingMatched \/ NextCall

-----------------------------------------------------------------------------
(* Inputs *)

MaxLines == 3       \* lines of a ruleset
MaxTokens == 3      \* options of a line

Opt(name, val) == [opt |-> name, val |-> val]
Flag(name) == Opt(name, <<>>)
Comment == Flag("#")

SeqsUpTo(S, n) == UNION {[1..k -> S] : k \in 0..n}

\* Monday 2017-04-24 14:46:05 on the local clock
MondayWall == 5957 * Day + 14 * Hour + 46 * Minute + 5

PrivateAddr == <<10, 10, 10, 10>>
PublicAddr == <<8, 8, 8, 8>>

Files(exists, timestamp, resumed, log, dotcreated, created) ==
    [exists |-> exists, timestamp |-> timestamp, resumed |-> resumed, log |-> log,
     dotcreated |-> dotcreated, created |-> created]

NoFile == TimestampFile(0, Empty)

\* a finished backup whose timestamp file holds the given local wall-clock time
ExistingBackup(wall, resumed) ==
    Files(TRUE, TimestampFile(wall, Empty), resumed, "clean", <<>>, <<>>)

Backup20h == ExistingBackup(MondayWall - H(20), FALSE)
BackupYesterday9 == ExistingBackup(MondayWall - Day - H(14) - 46 * Minute - 5 + H(9), TRUE)
BackupNew == Files(FALSE, NoFile, FALSE, "missing", <<>>, <<>>)
BackupNewCreated10h ==
    Files(FALSE, NoFile, FALSE, "missing", <<>>, <<TimestampFile(MondayWall - H(10), Empty)>>)

Context(tz, a, files) == [now |-> MondayWall - tz, tzlocal |-> tz, addr |-> a, fs |-> files]

\* --- rulesets of whole lines: OR across lines, --stop, environment lines
IvH(a, b) == Iv(Hr(a), Hr(b))

RuleLines == {
    <<Flag("lan")>>,
    <<Flag("lan"), Flag("stop")>>,
    <<Flag("verbose"), Flag("not_lan")>>,
    <<Flag("verbose")>>,
    <<Opt("utc_offset", <<Off(1, 3, 0)>>)>>,
    <<Opt("utc_offset", <<Dash>>)>>,
    <<Opt("time", <<IvH(14, 15)>>)>>,
    <<Opt("utc_offset", <<Off(1, 3, 0)>>), Opt("time", <<IvH(14, 15)>>)>>,
    <<Opt("utc_offset", <<Empty>>)>>,
    <<>> }

RuleContexts == {Context(H(9), a, Backup20h) : a \in {PrivateAddr, PublicAddr}}

RuleInputs ==
    {[calls |-> <<rs>>, ctx |-> c] : rs \in SeqsUpTo(RuleLines, MaxLines), c \in RuleContexts}

\* --- single lines of options: AND within a line, errors
LineTokens == {
    Flag("lan"), Flag("not_lan"), Flag("stop"), Comment,
    Opt("after", <<Hr(38)>>), Opt("after", <<Empty>>),
    Opt("time", <<IvH(14, 15)>>),
    Opt("age_exceeds", <<Bad>>), Opt("age_exceeds", <<Dur(21, "h")>>),
    Opt("weekday", <<Wd("Mon"), Wd("Xyz")>>),
    Opt("not_weekday", <<Wd("Sat"), Wd("Sun")>>) }

LineContexts == {Context(0, a, Backup20h) : a \in {PrivateAddr, PublicAddr}}

LineInputs ==
    {[calls |-> << <<l>> >>, ctx |-> c] : l \in SeqsUpTo(LineTokens, MaxTokens), c \in LineContexts}

\* --- one line and the same line with two neighbouring options swapped
OrderTokens == {
    Opt("after", <<Hr(14)>>), Opt("after", <<Hr(38)>>),
    Opt("time", <<IvH(14, 15)>>), Opt("time", <<IvH(38, 39)>>),
    Opt("weekday", <<Wd("Sat"), Wd("Sun")>>),
    Opt("not_time", <<IvH(38, 39)>>),
    Opt("prior_before", <<Hr(10)>>) }

Swap(line, i) ==
    [j \in 1..Len(line) |->
        IF j = i THEN line[i + 1] ELSE IF j = i + 1 THEN line[i] ELSE line[j]]

OrderInputs ==
    UNION {{[calls |-> << <<l>>, <<Swap(l, i)>> >>,
             ctx |-> Context(0, PrivateAddr, BackupYesterday9)] : i \in 1..Len(l) - 1} :
           l \in SeqsUpTo(OrderTokens, MaxTokens)}

\* --- one option and its negation, each as a line of its own
MaxItems == 2       \* items of a list argument

NegatedValues(name) ==
    CASE name \in {"new", "continued", "lan"} -> {<<>>}
      [] name = "subnet" ->
            SeqsUpTo({Net(<<10, 0, 0, 0>>, 8), Net(<<8, 8, 8, 8>>, 32), Bad}, MaxItems) \ {<<>>}
      [] name = "weekday" ->
            SeqsUpTo({Wd("Mon"), Wd("Sat"), Wd("Xyz")}, MaxItems) \ {<<>>}
      [] name = "init_exceeds" -> {<<Dur(9, "h")>>, <<Dur(11, "h")>>, <<Bad>>}
      [] name = "age_exceeds" ->
            {<<Dur(19, "h")>>, <<Dur(20, "h")>>, <<Dur(21, "h")>>, <<Empty>>}
      [] name = "prior_before" ->
            {<<Hr(9)>>, <<Tod(-1, 10, 0, 0)>>, <<Tod(-1, 9, 0, 0)>>, <<Bad>>}

Invertible ==
    {"new", "continued", "lan", "subnet", "weekday", "init_exceeds", "age_exceeds",
     "prior_before"}

NegationContexts ==
    {Context(0, a, f) : a \in {PrivateAddr, PublicAddr},
                        f \in {Backup20h, BackupYesterday9, BackupNew, BackupNewCreated10h}}

NegationInputs ==
    UNION {{[calls |-> << <<<<Opt(name, v)>>>>, <<<<Opt(NotName(name), v)>>>> >>, ctx |-> c] :
            v \in NegatedValues(name), c \in NegationContexts} : name \in Invertible}

\* --- one line: an optional anchor-setting option, then an optional day-relative one
NowTod == Tod(0, 14, 46, 5)     \* the time of day of now on the local clock

AfterValues == {Hr(24), Hr(38), Hr(-10), NowTod, Tod(0, 14, 46, 6)}

TimeIntervals ==
    {IvH(14, 15), Iv(Hr(14), NowTod), IvH(38, 39), Iv(Tod(1, 0, 0, 0), Tod(2, 0, 0, 0))}

NotTimeIntervals == {IvH(38, 39), Iv(NowTod, Hr(15)), Iv(Hr(14), NowTod)}

Lists(S) == SeqsUpTo(S, MaxItems) \ {<<>>}

DayAnchors ==
    {<<>>} \cup {<<Opt("after", <<v>>)>> : v \in AfterValues}
           \cup {<<Opt("time", l)>> : l \in Lists(TimeIntervals)}

DayRelatives ==
    {<<>>} \cup {<<Opt("not_time", l)>> : l \in Lists(NotTimeIntervals)}
           \cup {<<Opt("weekday", l)>> : l \in {<<Wd("Sat"), Wd("Sun")>>, <<Wd("Mon")>>, <<Wd("Tue")>>}}
           \cup {<<Opt("prior_before", <<v>>)>> :
                     v \in {Hr(10), Hr(9), Tod(-1, 10, 0, 0), Tod(-1, 9, 0, 0)}}

DayContexts == {Context(tz, PrivateAddr, BackupYesterday9) : tz \in {0, H(9)}}

\* the day-relative option is written first: the registry order decides
DayInputs ==
    {[calls |-> << <<r \o a>> >>, ctx |-> c] :
        a \in DayAnchors, r \in DayRelatives, c \in DayContexts}

\* --- rulesets whose lines shift the anchor or change the zone
ZoneLines == {
    <<Opt("utc_offset", <<Off(-1, 10, 0)>>)>>,
    <<Opt("utc_offset", <<Off(-1, 10, 0)>>), Opt("weekday", <<Wd("Sun")>>)>>,
    <<Opt("utc_offset", <<Dash>>), Opt("weekday", <<Wd("Mon")>>)>>,
    <<Opt("after", <<Hr(38)>>), Opt("weekday", <<Wd("Mon")>>)>>,
    <<Opt("weekday", <<Wd("Sun")>>)>>,
    <<Opt("weekday", <<Wd("Mon")>>), Flag("stop")>> }

ZoneInputs ==
    {[calls |-> <<rs>>, ctx |-> Context(H(9), PrivateAddr, Backup20h)] :
        rs \in SeqsUpTo(ZoneLines, MaxLines)}

\* --- one option about the state of the backup directory
HoursAgo(n) == TimestampFile(MondayWall - H(n), Empty)

BackupNewDotCreated12h ==
    Files(FALSE, NoFile, FALSE, "missing", <<HoursAgo(12)>>, <<HoursAgo(10)>>)

Backup20hCreated10h ==
    Files(TRUE, HoursAgo(20), FALSE, "clean", <<>>, <<HoursAgo(10)>>)

BackupContexts ==
    {Context(H(9), PrivateAddr, f) :
        f \in {BackupNew, BackupNewCreated10h, BackupNewDotCreated12h, Backup20h,
                Backup20hCreated10h}}

BackupTokens ==
    {Flag("new"), Flag("not_new")}
    \cup {Opt("init_exceeds", <<d>>) :
              d \in {Dur(0, "s"), Dur(9, "h"), Dur(10, "h"), Dur(11, "h"), Dur(12, "h")}}
    \cup {Opt("age_exceeds", <<d>>) :
              d \in {Dur(19, "h"), Dur(20, "h"), Dur(72001, "s"), Dur(21, "h"),
                      Dur(5957, "d"), Dur(6000, "d"), Dur(1, "n")}}

BackupInputs ==
    {[calls |-> << <<<<t>>>> >>, ctx |-> c] : t \in BackupTokens, c \in BackupContexts}

\* --- the same ruleset evaluated twice against the same directory
RepeatLines == {
    <<Flag("verbose")>>,
    <<Opt("utc_offset", <<Off(-1, 10, 0)>>)>>,
    <<Opt("weekday", <<Wd("Sun")>>)>>,
    <<Opt("init_exceeds", <<Dur(9, "h")>>)>>,
    <<Opt("not_init_exceeds", <<Dur(0, "s")>>), Flag("not_lan")>>,
    <<Opt("age_exceeds", <<Dur(6000, "d")>>), Flag("stop")>> }

RepeatContexts ==
    {Context(H(9), PrivateAddr, f) :
        f \in {BackupNew, BackupNewCreated10h, BackupNewDotCreated12h, Backup20h}}

RepeatInputs ==
    {[calls |-> <<rs, rs>>, ctx |-> c] :
        rs \in SeqsUpTo(RepeatLines, MaxLines - 1), c \in RepeatContexts}

\* --- timestamp files with a zone token, read by --age-exceeds
Sunday19 == MondayWall - (19 * Hour + 46 * Minute + 5)

ZoneTokens ==
    {Empty, Zulu, Off(1, 9, 0), OffH(1, 9), Off(-1, 1, 23), OffH(1, 12), Dash, Bad}

TimestampContexts ==
    {Context(H(9), PrivateAddr,
             Files(TRUE, TimestampFile(Sunday19, z), FALSE, "clean", <<>>, <<>>)) :
        z \in ZoneTokens}

TimestampInputs ==
    {[calls |-> << <<<<Opt("age_exceeds", <<d>>)>>>> >>, ctx |-> c] :
        d \in {Dur(9, "h"), Dur(10, "h"), Dur(11, "h"), Dur(19, "h"), Dur(20, "h")},
        c \in TimestampContexts}

\* --- the same list of intervals given to --time and to --not-time, and
\* intervals whose end is not after their start
IntervalPool ==
    {IvH(14, 15), Iv(Hr(14), NowTod), Iv(NowTod, Hr(15)), IvH(38, 39),
     IvH(15, 14), Iv(NowTod, NowTod), IvH(39, 14)}

IntervalLines ==
    UNION {{<<Opt("time", l), Opt("not_time", l)>>,
            <<Opt("time", l)>>,
            <<Opt("not_time", l)>>,
            <<Opt("after", <<Hr(38)>>), Opt("not_time", l)>>} : l \in Lists(IntervalPool)}

IntervalInputs ==
    {[calls |-> << <<l>> >>, ctx |-> c] : l \in IntervalLines, c \in DayContexts}

Inputs ==
    <<RuleInputs, LineInputs, OrderInputs, NegationInputs,
      DayInputs, ZoneInputs, BackupInputs, RepeatInputs, TimestampInputs,
      IntervalInputs>>

Init ==
    /\ \E family \in 1..Len(Inputs) : \E inp \in Inputs[family] :
        /\ calls = inp.calls
        /\ now = inp.ctx.now
        /\ tzlocal = inp.ctx.tzlocal
        /\ addr = inp.ctx.addr
        /\ fs = inp.ctx.fs
    /\ run = 1
    /\ pc = "start"
    /\ li = 1
    /\ client_created = <<>>
    /\ arguments = EmptyDict
    /\ environment = [verbose |-> FALSE, timezone |-> <<>>]
    /\ conditions = [verbose |-> FALSE, timezone |-> <<>>, matched_date |-> [inst |-> 0, off |-> 0]]
    /\ out = <<>>
    /\ results = <<>>
    /\ hist = <<>>

Spec == Init /\ [][Next]_vars

-----------------------------------------------------------------------------
(* Properties.  hist[i] describes the i-th call of Conditions.match of the  *)
(* current invocation; results[run] is what check_conditions returned.     *)

ConditionOptions ==
    {"new", "not_new", "continued", "not_continued", "lan", "not_lan",
     "subnet", "not_subnet", "after", "time", "not_time", "weekday", "not_weekday",
     "init_exceeds", "not_init_exceeds", "age_exceeds", "not_age_exceeds",
     "prior_before", "not_prior_before"}

EnvironmentOptions == {"verbose", "utc_offset"}

Opts(words) == {words[i].opt : i \in 1..Len(words)}

Returned == pc = "done" /\ Len(results) = run

NoStopAnywhere == \A l \in 1..Len(ruleset) : "stop" \notin Opts(shlex_split(ruleset[l]))

SomeLineMatched == \E i \in 1..Len(hist) : hist[i].ret = "True"

\* C1: OR across lines. In a ruleset without --stop whose evaluation raises no
\* error, the result is "proceed" iff some line matches; when no line matches
\* every line has been tried and the result is "do not proceed" (also for a
\* ruleset of zero lines).
C1_OrAcrossLines ==
    (Returned /\ results[run].ret # "raise" /\ NoStopAnywhere) =>
        /\ (results[run].ret = "proceed") <=> SomeLineMatched
        /\ ~SomeLineMatched => /\ Len(hist) = Len(ruleset)
                               /\ results[run].ret = "do not proceed"
        /\ ruleset = <<>> => results[run].ret = "do not proceed"

\* C1 witness: a later line matches after the first line failed, and the result is proceed
C1_Witness ==
    /\ Returned /\ NoStopAnywhere
    /\ Len(hist) >= 2
    /\ hist[1].ret = "False"
    /\ hist[Len(hist)].ret = "True"
    /\ results[run].ret = "proceed"

\* C2: the stop flag. Lines are tried in ruleset order and the first that matches
\* decides: "do not proceed" if it carries --stop, "proceed" otherwise; a line
\* that does not match, with or without --stop, lets the next line be tried.
C2_FirstMatchDecides ==
    (Returned /\ results[run].ret # "raise") =>
        /\ \A i \in 1..Len(hist) :
              /\ hist[i].li = i
              /\ i < Len(hist) => hist[i].ret = "False"
        /\ IF SomeLineMatched
           THEN results[run].ret =
                   (IF "stop" \in Opts(hist[Len(hist)].words)
                    THEN "do not proceed" ELSE "proceed")
           ELSE /\ Len(hist) = Len(ruleset)
                /\ results[run].ret = "do not proceed"

\* C2 witness: a --stop line that does not match is passed over, the next line
\* matches without --stop
C2_Witness ==
    /\ Returned
    /\ Len(hist) = 2
    /\ "stop" \in Opts(hist[1].words) /\ hist[1].ret = "False"
    /\ "stop" \notin Opts(hist[2].words) /\ hist[2].ret = "True"
    /\ results[run].ret = "proceed"

Passed(h, name) == \E j \in 1..Len(h.ctrace) : h.ctrace[j] = [n |-> name, r |-> "T"]
SomeFailed(h) == \E j \in 1..Len(h.ctrace) : h.ctrace[j].r = "F"

\* C3: AND within a line. A line with at least one condition option whose
\* evaluation raises no error matches iff every condition option present on it,
\* positive or negated, evaluated to true; it does not match iff one evaluated
\* to false.
C3_AndWithinLine ==
    \A i \in 1..Len(hist) :
        LET h == hist[i]
            present == ConditionOptions \cap Opts(h.words)
        IN  (present # {} /\ h.ret # "raise") =>
                /\ (h.ret = "True") <=> \A name \in present : Passed(h, name)
                /\ (h.ret = "False") <=> SomeFailed(h)

\* C3 witness: a line with two conditions, the first true and the second false
C3_Witness ==
    \E i \in 1..Len(hist) :
        /\ Cardinality(ConditionOptions \cap Opts(hist[i].words)) >= 2
        /\ Len(hist[i].ctrace) = 2
        /\ hist[i].ctrace[1].r = "T"
        /\ hist[i].ctrace[2].r = "F"
        /\ hist[i].ret = "False"

\* C4: a line that sets both --after and --time is rejected with
\* IncompatibleOptionsError whatever the order and the values of the two
\* options, before any condition of the line is evaluated.
C4_AfterAndTimeRejected ==
    \A i \in 1..Len(hist) :
        {"after", "time"} \subseteq Opts(hist[i].words) =>
            /\ hist[i].ret = "raise"
            /\ hist[i].err = "IncompatibleOptionsError"
            /\ hist[i].ctrace = <<>>

\* C5: a line with no condition option and no environment option (empty, only a
\* comment, only --stop) ends the evaluation with NoConditionsError.
C5_NoConditionsError ==
    \A i \in 1..Len(hist) :
        (ConditionOptions \cup EnvironmentOptions) \cap Opts(hist[i].words) = {} =>
            /\ hist[i].ret = "raise"
            /\ hist[i].err = "NoConditionsError"
            /\ pc = "done"
            /\ i = Len(hist)
            /\ results[run] = Finished("raise", "NoConditionsError", out)

\* C5 witness: a comment-only line has been evaluated
C5_Witness ==
    \E i \in 1..Len(hist) :
        /\ hist[i].line # <<>>
        /\ hist[i].words = <<>>
        /\ hist[i].err = "NoConditionsError"

EnvironmentOnly(words) ==
    /\ Opts(words) \cap EnvironmentOptions # {}
    /\ Opts(words) \cap ConditionOptions = {}

\* C6: a line with at least one environment option and no condition never
\* raises NoConditionsError, never matches, and its settings are in force for
\* the lines after it (verbose stays on).
C6_EnvironmentOnlyLines ==
    \A i \in 1..Len(hist) :
        LET h == hist[i]
        IN  EnvironmentOnly(h.words) =>
                /\ h.err # "NoConditionsError"
                /\ h.ret # "True"
                /\ h.ret = "False" =>
                      /\ "verbose" \in Opts(h.words) => h.env_after.verbose
                      /\ h.env.verbose => h.env_after.verbose
                /\ i < Len(hist) => hist[i + 1].env = h.env_after

\* C7: --verbose or --utc-offset on a line that also has a condition is scoped
\* to that line: whether the line matches or fails, the evaluator-wide
\* environment is left as it was, and the next line starts from it.
C7_LineScopedEnvironment ==
    \A i \in 1..Len(hist) :
        LET h == hist[i]
        IN  (/\ Opts(h.words) \cap EnvironmentOptions # {}
             /\ Opts(h.words) \cap ConditionOptions # {}
             /\ h.ret # "raise") =>
                /\ h.env_after = h.env
                /\ i = Len(hist) /\ pc \in {"loop", "matched", "done"} => environment = h.env
                /\ i < Len(hist) => hist[i + 1].env = h.env

\* C7 witness: a line with --utc-offset and a condition did not match and the
\* next line was evaluated
C7_Witness ==
    /\ Len(hist) >= 2
    /\ {"utc_offset", "time"} \subseteq Opts(hist[1].words)
    /\ parse_args(hist[1].words)["utc_offset"] = <<<<Off(1, 3, 0)>>>>
    /\ hist[1].ret = "False"
    /\ hist[2].env.timezone = <<>>

OneToken(r) == Len(calls[r]) = 1 /\ Len(calls[r][1]) = 1

SwapPair(i) ==
    /\ Len(calls) = 2
    /\ Len(calls[1]) = 1 /\ Len(calls[2]) = 1
    /\ i \in 1..Len(calls[1][1]) - 1
    /\ calls[2][1] = Swap(calls[1][1], i)

SameOutcome == results[1].ret = results[2].ret /\ results[1].err = results[2].err

\* C8: for a fixed now and backup state, two lines carrying the same options in
\* a different textual order produce identical results.
C8_OrderIndependent ==
    (Returned /\ run = 2) =>
        \A i \in 1..MaxTokens : SwapPair(i) => SameOutcome

DayRelative == {"not_time", "weekday", "not_weekday", "prior_before", "not_prior_before"}

\* C8 (amended): exchanging two adjacent options of different names leaves the
\* result unchanged, and within a line the anchor-setting conditions (after,
\* time) are evaluated before not_time, weekday and prior_before.
C8_OrderIndependentDistinct ==
    /\ (Returned /\ run = 2) =>
          \A i \in 1..MaxTokens :
              (SwapPair(i) /\ calls[1][1][i].opt # calls[1][1][i + 1].opt) => SameOutcome
    /\ \A n \in 1..Len(hist) :
          \A j, k \in 1..Len(hist[n].ctrace) :
              (hist[n].ctrace[j].n \in DayRelative /\ hist[n].ctrace[k].n \in {"after", "time"})
                  => k < j

\* C8 witness: `--weekday Sat,Sun --time 38..39` after `--time 38..39 --weekday
\* Sat,Sun`, both matching on a Monday afternoon
C8_Witness ==
    /\ Returned /\ run = 2
    /\ SwapPair(1)
    /\ calls[1][1] = <<Opt("time", <<IvH(38, 39)>>), Opt("weekday", <<Wd("Sat"), Wd("Sun")>>)>>
    /\ results[1].ret = "proceed"
    /\ results[2].ret = "proceed"

NegationPair ==
    /\ Len(calls) = 2
    /\ OneToken(1) /\ OneToken(2)
    /\ calls[1][1][1].opt \in Invertible
    /\ calls[2][1][1].opt = NotName(calls[1][1][1].opt)
    /\ calls[2][1][1].val = calls[1][1][1].val

\* C9: negation is the exact complement. For an invertible condition c, an
\* argument v and a fixed now/backup/address, the line `--not-c v` matches iff
\* `--c v` does not match (and raises iff `--c v` raises, with the same error);
\* for a list condition `--not-c L` matches only when every item of L was tried
\* and none passed.
C9_NegationIsComplement ==
    (Returned /\ run = 2 /\ NegationPair) =>
        /\ (results[2].ret = "proceed") <=> (results[1].ret = "do not proceed")
        /\ (results[2].ret = "do not proceed") <=> (results[1].ret = "proceed")
        /\ (results[2].ret = "raise") <=> (results[1].ret = "raise")
        /\ results[2].err = results[1].err
        /\ (results[2].ret = "proceed" /\ calls[1][1][1].opt \in {"subnet", "weekday"}) =>
              /\ Len(hist[1].itrace) = Len(calls[2][1][1].val)
              /\ \A k \in 1..Len(hist[1].itrace) : hist[1].itrace[k].r = "F"

\* C9 witness: `--not-subnet` with two networks, neither holding the address, matches
C9_Witness ==
    /\ Returned /\ run = 2 /\ NegationPair
    /\ calls[2][1][1].opt = "not_subnet"
    /\ Len(calls[2][1][1].val) = 2
    /\ results[1].ret = "do not proceed"
    /\ results[2].ret = "proceed"

TextKind(opt) ==
    CASE opt \in {"after", "prior_before", "not_prior_before"} -> "tod"
      [] opt \in {"time", "not_time"} -> "iv"
      [] opt \in {"weekday", "not_weekday"} -> "wd"
      [] opt \in {"init_exceeds", "not_init_exceeds", "age_exceeds", "not_age_exceeds"} -> "dur"
      [] OTHER -> "any"

WellFormed(kind, text) ==
    CASE kind = "tod" -> text.k = "tod"
      [] kind = "iv" -> text.k = "iv" /\ text.start.k = "tod" /\ text.end.k = "tod"
      [] kind = "wd" -> /\ text.k = "wd"
                        /\ text.name \in {"Mon", "Tue", "Wed", "Thu", "Fri", "Sat", "Sun"}
      [] kind = "dur" -> text.k = "dur" /\ text.unit \in {"s", "m", "h", "d", "w", "n"}
      [] OTHER -> TRUE

HasMalformed(words) ==
    \E t \in 1..Len(words) :
        \E k \in 1..Len(words[t].val) : ~WellFormed(TextKind(words[t].opt), words[t].val[k])

\* C10: format errors are always fatal. Whenever a line that is reached contains
\* a malformed duration, time-of-day, interval or weekday argument, the
\* evaluation ends by raising an error; the line is never treated as matching or
\* as non-matching.
C10_FormatErrorsFatal ==
    \A i \in 1..Len(hist) :
        HasMalformed(hist[i].words) => hist[i].ret = "raise"

-----------------------------------------------------------------------------
(* The anchor date.  The expected values are computed from the line and    *)
(* the clock alone.                                                        *)

Seconds(tod) == tod.d * 86400 + tod.h * 3600 + tod.m * 60 + tod.s

\* the instant of 00:00 of the date that instant t has in the zone of offset off
Midnight(t, off) == t - ((t + off) % 86400)

\* the value of the option on the line, as a list of items (<<>> when absent)
Items(h, opt) == JoinSplit(parse_args(h.words)[opt])

IsOffset(text) == text.k \in {"off", "dash"}

\* the offset of the zone a line is evaluated in: its own --utc-offset, else
\* the evaluator-wide zone, else the local zone
ActiveOffset(h) ==
    IF Items(h, "utc_offset") # <<>>
    THEN IF Items(h, "utc_offset")[1].k = "off"
         THEN Items(h, "utc_offset")[1].sign
                  * (Items(h, "utc_offset")[1].hh * 3600 + Items(h, "utc_offset")[1].mm * 60)
         ELSE tzlocal
    ELSE IF h.env.timezone # <<>> THEN h.env.timezone[1] ELSE tzlocal

ZoneKnown(h) == \A k \in 1..Len(Items(h, "utc_offset")) : IsOffset(Items(h, "utc_offset")[k])

Calls(h, name) == {j \in 1..Len(h.itrace) : h.itrace[j].n = name}

Evaluated(h, name, r) == \E j \in 1..Len(h.ctrace) : h.ctrace[j] = [n |-> name, r |-> r]

IsInterval(text) == text.k = "iv" /\ text.start.k = "tod" /\ text.end.k = "tod"

\* A of an interval, and whether the interval passes --time
TimeAnchor(h, iv) == Midnight(now - Seconds(iv.start), ActiveOffset(h))
TimePasses(h, iv) == now < TimeAnchor(h, iv) + Seconds(iv.end)

\* C11: --time L passes iff some interval (start, end) of L satisfies
\* now < A + end, A being midnight in the active zone of the date of
\* now - start; the intervals are tried in list order up to the first that
\* passes, and on success the anchor date is the A of that interval, which the
\* later conditions of the line see.
C11_TimeAnchorsFirstMatch ==
    \A i \in 1..Len(hist) :
        LET h == hist[i]
            L == Items(h, "time")
        IN  (/\ ZoneKnown(h)
             /\ \A k \in 1..Len(L) : IsInterval(L[k])
             /\ Evaluated(h, "time", "T") \/ Evaluated(h, "time", "F")) =>
                /\ Evaluated(h, "time", "T") <=> \E k \in 1..Len(L) : TimePasses(h, L[k])
                /\ \A j \in Calls(h, "time") :
                      LET e == h.itrace[j]
                      IN  /\ e.arg = L[e.i]
                          /\ e.after.inst = TimeAnchor(h, e.arg)
                          /\ (e.r = "T") <=> TimePasses(h, e.arg)
                          /\ \A k \in 1..(e.i - 1) : ~TimePasses(h, L[k])
                          /\ e.r = "T" =>
                                \A n \in (j + 1)..Len(h.itrace) :
                                    /\ h.itrace[n].n # "time"
                                    /\ h.itrace[n].before.inst = TimeAnchor(h, e.arg)
                /\ Evaluated(h, "time", "F") => Cardinality(Calls(h, "time")) = Len(L)

\* C11 witness: Monday 14:46, `--time 38..39,14..15 --weekday Sat,Sun` matches on
\* the anchor of 38..39 (Sunday) without trying 14..15
C11_Witness ==
    \E i \in 1..Len(hist) :
        /\ Items(hist[i], "time") = <<IvH(38, 39), IvH(14, 15)>>
        /\ Items(hist[i], "weekday") = <<Wd("Sat"), Wd("Sun")>>
        /\ Cardinality(Calls(hist[i], "time")) = 1
        /\ hist[i].ret = "True"

FirstPassing(h, L) ==
    CHOOSE k \in 1..Len(L) : TimePasses(h, L[k]) /\ \A j \in 1..(k - 1) : ~TimePasses(h, L[j])

\* the anchor date in force once the anchor-setting conditions of the line are
\* done: the one of --after, the one of the first passing --time interval, or
\* today in the active zone
ExpectedAnchor(h) ==
    IF Items(h, "after") # <<>>
    THEN Midnight(now - Seconds(Items(h, "after")[1]), ActiveOffset(h))
    ELSE IF Items(h, "time") # <<>>
    THEN TimeAnchor(h, Items(h, "time")[FirstPassing(h, Items(h, "time"))])
    ELSE Midnight(now, ActiveOffset(h))

Inside(A, iv) == A + Seconds(iv.start) <= now /\ now < A + Seconds(iv.end)

\* C12: --not-time L is evaluated against the anchor date already in force
\* (the line's initial one, or the one set by after/time on the line) and
\* never changes it: it passes iff for no interval (start, end) of L
\* anchor + start <= now < anchor + end, and the anchor is the same before and
\* after each of its calls and at the end of the line.
C12_NotTimeKeepsAnchor ==
    \A i \in 1..Len(hist) :
        LET h == hist[i]
            L == Items(h, "not_time")
        IN  (/\ ZoneKnown(h)
             /\ \A k \in 1..Len(L) : IsInterval(L[k])
             /\ Evaluated(h, "not_time", "T") \/ Evaluated(h, "not_time", "F")) =>
                /\ Evaluated(h, "not_time", "T")
                      <=> \A k \in 1..Len(L) : ~Inside(ExpectedAnchor(h), L[k])
                /\ \A j \in Calls(h, "not_time") :
                      /\ h.itrace[j].before.inst = ExpectedAnchor(h)
                      /\ h.itrace[j].after = h.itrace[j].before
                      /\ (h.itrace[j].r = "T") <=> Inside(ExpectedAnchor(h), h.itrace[j].arg)
                /\ h.ended.matched_date.inst = ExpectedAnchor(h)

\* C12 witness: after `--after 38` moved the anchor to Sunday, `--not-time 38..39`
\* fails on Monday 14:46
C12_Witness ==
    \E i \in 1..Len(hist) :
        /\ Items(hist[i], "after") = <<Hr(38)>>
        /\ Items(hist[i], "not_time") = <<IvH(38, 39)>>
        /\ Evaluated(hist[i], "not_time", "F")
        /\ hist[i].ended.matched_date.inst = Midnight(now, tzlocal) - 86400

WeekdayNames == <<"Mon", "Tue", "Wed", "Thu", "Fri", "Sat", "Sun">>

\* the weekday name of the date whose midnight in the zone of offset off is A
\* (2001-01-01, day 0, was a Monday)
WeekdayOf(A, off) == WeekdayNames[(((A + off) \div 86400) % 7) + 1]

IsTimeOfDay(text) == text.k = "tod"

AfterAnchor(h) == Midnight(now - Seconds(Items(h, "after")[1]), ActiveOffset(h))

\* C13: --after v always passes, whatever v and now, and its only effect is to
\* set the anchor date to the date of now - v in the active zone: a line made
\* of --after v alone matches, and weekday, not_time and prior_before later on
\* the line are evaluated against the shifted date.
C13_AfterAlwaysPasses ==
    \A i \in 1..Len(hist) :
        LET h == hist[i]
        IN  (/\ ZoneKnown(h)
             /\ Items(h, "after") # <<>>
             /\ IsTimeOfDay(Items(h, "after")[1])
             /\ Calls(h, "after") # {}) =>
                /\ Evaluated(h, "after", "T")
                /\ \A j \in Calls(h, "after") :
                      /\ h.itrace[j].r = "T"
                      /\ h.itrace[j].after.inst = AfterAnchor(h)
                      /\ \A n \in (j + 1)..Len(h.itrace) :
                            /\ h.itrace[n].before.inst = AfterAnchor(h)
                            /\ h.itrace[n].after.inst = AfterAnchor(h)
                            /\ (h.itrace[n].n = "weekday" /\ h.itrace[n].r # "E") =>
                                  ((h.itrace[n].r = "T") <=>
                                      (h.itrace[n].arg.name
                                          = WeekdayOf(AfterAnchor(h), ActiveOffset(h))))
                /\ Opts(h.words) = {"after"} => h.ret = "True"
                /\ h.env_after = h.env
                /\ h.ended.matched_date.inst = AfterAnchor(h)

\* C13 witness: Monday 14:46, `--after=-10 --weekday Tue` matches (the date of
\* now + 10h is Tuesday)
C13_Witness ==
    \E i \in 1..Len(hist) :
        /\ Items(hist[i], "after") = <<Hr(-10)>>
        /\ Items(hist[i], "weekday") = <<Wd("Tue")>>
        /\ hist[i].ret = "True"

Today(h) == Midnight(now, ActiveOffset(h))

\* C14: every line starts with the anchor date reset to today's date in the
\* active zone (the line's own --utc-offset, else the evaluator-wide zone, else
\* the local zone); an anchor shifted by after/time on an earlier line has no
\* influence, and weekday is compared with the weekday of the line's own
\* zone-dependent anchor date.
C14_AnchorResetEachLine ==
    \A i \in 1..Len(hist) :
        LET h == hist[i]
        IN  (ZoneKnown(h) /\ h.err \notin {"IncompatibleOptionsError"}) =>
                /\ h.itrace # <<>> =>
                      /\ h.itrace[1].before.inst = Today(h)
                      /\ h.itrace[1].before.off = ActiveOffset(h)
                /\ ({"after", "time"} \cap Opts(h.words) = {}) =>
                      h.ended.matched_date.inst = Today(h)
                /\ \A j \in 1..Len(h.itrace) :
                      (h.itrace[j].n \in {"weekday", "not_weekday"} /\ h.itrace[j].r # "E") =>
                          /\ h.itrace[j].before.inst = ExpectedAnchor(h)
                          /\ (h.itrace[j].r = "T") <=>
                                (h.itrace[j].arg.name
                                    = WeekdayOf(ExpectedAnchor(h), ActiveOffset(h)))

\* C14 witness: local zone +0900, Monday 14:46.  `--after 38 --weekday Mon` fails
\* on the shifted date (Sunday); an environment-only `--utc-offset -1000` follows
\* (there it is Sunday); then `--utc-offset - --weekday Mon` matches: the anchor
\* is today in the local zone again
C14_Witness ==
    /\ Len(hist) = 3
    /\ Items(hist[1], "after") = <<Hr(38)>>
    /\ hist[1].ret = "False"
    /\ hist[1].ended.matched_date.inst = Midnight(now, tzlocal) - 86400
    /\ Items(hist[2], "utc_offset") = <<Off(-1, 10, 0)>>
    /\ Items(hist[2], "weekday") = <<>>
    /\ Items(hist[3], "utc_offset") = <<Dash>>
    /\ Items(hist[3], "weekday") = <<Wd("Mon")>>
    /\ hist[3].env.timezone = <<0 - 36000>>
    /\ hist[3].ret = "True"

-----------------------------------------------------------------------------
(* The state of the backup directory *)

IsDuration(text) == text.k = "dur" /\ text.unit \in {"s", "m", "h", "d", "w", "n"}

DurationSeconds(text) ==
    text.number * (CASE text.unit = "s" -> 1
                     [] text.unit = "m" -> 60
                     [] text.unit = "h" -> 3600
                     [] text.unit = "d" -> 86400
                     [] text.unit = "w" -> 604800
                     [] text.unit = "n" -> 2592000)

\* the instant a timestamp file written on the local clock stands for
LocalInstant(file) == file.wall - tzlocal

CallsOf(h, names) == {j \in 1..Len(h.itrace) : h.itrace[j].n \in names}

\* C15: age_exceeds(maxAge) is true iff now - timestamp > maxAge, strictly,
\* timestamp being the recorded completion instant of the backup: aged 20h it
\* passes 19h, fails 21h, and fails exactly 20h.
C15_AgeExceedsStrict ==
    \A i \in 1..Len(hist) :
        \A j \in CallsOf(hist[i], {"age_exceeds", "not_age_exceeds"}) :
            LET e == hist[i].itrace[j]
            IN  (fs.exists /\ fs.timestamp.zone = Empty /\ IsDuration(e.arg) /\ e.r # "E") =>
                    ((e.r = "T") <=>
                        (now - LocalInstant(fs.timestamp) > DurationSeconds(e.arg)))

\* C15 witness: a backup aged exactly 20h does not pass `--age-exceeds 20h`
C15_Witness ==
    \E i \in 1..Len(hist) :
        /\ fs.exists
        /\ now - LocalInstant(fs.timestamp) = 72000
        /\ Items(hist[i], "age_exceeds") = <<Dur(20, "h")>>
        /\ Evaluated(hist[i], "age_exceeds", "F")

\* the client-creation instant: the `.created` marker when it exists, otherwise
\* the `created` marker (written on the local clock)
CreationInstant ==
    IF fs.dotcreated # <<>> THEN LocalInstant(fs.dotcreated[1])
    ELSE LocalInstant(fs.created[1])

MarkersLocal ==
    /\ \A k \in 1..Len(fs.dotcreated) : fs.dotcreated[k].zone = Empty
    /\ \A k \in 1..Len(fs.created) : fs.created[k].zone = Empty

\* C16: init_exceeds(maxAge) is true iff the backup is new and
\* now - client-creation instant > maxAge; it is false for every existing
\* backup, and the creation instant comes from `.created` when that marker
\* exists, otherwise from `created`.
C16_InitExceeds ==
    \A i \in 1..Len(hist) :
        \A j \in CallsOf(hist[i], {"init_exceeds", "not_init_exceeds"}) :
            LET e == hist[i].itrace[j]
            IN  (MarkersLocal /\ IsDuration(e.arg) /\ e.r # "E") =>
                    /\ fs.exists => e.r = "F"
                    /\ ~fs.exists =>
                          /\ fs.dotcreated # <<>> \/ fs.created # <<>>
                          /\ (e.r = "T") <=> (now - CreationInstant > DurationSeconds(e.arg))

\* C16 witness: a new backup with `.created` 12h old and `created` 10h old
\* passes `--init-exceeds 11h`
C16_Witness ==
    \E i \in 1..Len(hist) :
        /\ ~fs.exists
        /\ fs.dotcreated = <<HoursAgo(12)>>
        /\ fs.created = <<HoursAgo(10)>>
        /\ Items(hist[i], "init_exceeds") = <<Dur(11, "h")>>
        /\ hist[i].ret = "True"

\* C17: prior_before(v) is true iff anchor date midnight + v > the recorded
\* timestamp of the backup, strictly, with the anchor in force (shifted by
\* after/time when present on the line).
C17_PriorBefore ==
    \A i \in 1..Len(hist) :
        \A j \in CallsOf(hist[i], {"prior_before", "not_prior_before"}) :
            LET h == hist[i]
                e == hist[i].itrace[j]
            IN  (/\ ZoneKnown(h)
                 /\ fs.exists /\ fs.timestamp.zone = Empty
                 /\ IsTimeOfDay(e.arg) /\ e.r # "E") =>
                    /\ e.before.inst = ExpectedAnchor(h)
                    /\ (e.r = "T") <=>
                          (ExpectedAnchor(h) + Seconds(e.arg) > LocalInstant(fs.timestamp))

\* C17 witness: prior backup at yesterday 09:00; after `--after 24` the anchor is
\* yesterday and `--prior-before 9` (yesterday 09:00, not later) does not pass
C17_Witness ==
    \E i \in 1..Len(hist) :
        /\ Items(hist[i], "after") = <<Hr(24)>>
        /\ Items(hist[i], "prior_before") = <<Hr(9)>>
        /\ LocalInstant(fs.timestamp) = Midnight(now, tzlocal) - 86400 + 32400
        /\ Evaluated(hist[i], "prior_before", "F")

\* C18: for a backup path that does not exist the `new` condition holds and
\* the backup always shows as very old: --age-exceeds d passes for every valid
\* duration d.
C18_NewBackupAlwaysOld ==
    \A i \in 1..Len(hist) :
        \A j \in 1..Len(hist[i].itrace) :
            LET e == hist[i].itrace[j]
            IN  ~fs.exists =>
                    /\ e.n \in {"new", "not_new"} => e.r = "T"
                    /\ (e.n \in {"age_exceeds", "not_age_exceeds"} /\ IsDuration(e.arg)) =>
                          e.r = "T"

\* C19: determinism. Two invocations with the same ruleset at the same
\* instant, from the same address and against the same backup directory give
\* the same decision or the same error, also when the first of them is the one
\* that writes the `created` marker; and an invocation starts without any
\* verbose or time-zone setting of the previous one.
C19_Deterministic ==
    /\ \A r1, r2 \in 1..Len(results) :
           calls[r1] = calls[r2] => results[r1] = results[r2]
    /\ Len(hist) >= 1 =>
           /\ hist[1].env.verbose = FALSE
           /\ hist[1].env.timezone = <<>>

\* the second of two invocations has returned; the first one created the
\* marker, set a time zone and evaluated --init-exceeds against the marker
C19_Witness ==
    /\ run = 2 /\ Returned
    /\ calls[1] = calls[2]
    /\ results[1] = results[2]
    /\ ~fs.exists /\ fs.dotcreated = <<>>
    /\ fs.created = <<[wall |-> now + tzlocal, zone |-> Empty]>>
    /\ \E i \in 1..Len(hist) : hist[i].env_after.timezone # <<>>
    /\ \E i \in 1..Len(hist) : CallsOf(hist[i], {"init_exceeds"}) # {}

ZoneSeconds(z) ==
    CASE z.k = "empty" -> tzlocal
      [] z.k = "Z"     -> 0
      [] z.k = "off"   -> z.sign * (z.hh * 3600 + z.mm * 60)
      [] z.k = "offh"  -> z.sign * z.hh * 3600
      [] z.k = "dash"  -> tzlocal

FiveShapes == {"empty", "Z", "off", "offh", "dash"}

\* C21: the token after `YYYY-MM-DD HH:MM:SS` in the timestamp file decides the
\* zone: none is the local zone, `Z` is UTC, a sign with HHMM that offset, a sign
\* with HH that many hours, and `-` the zone of the evaluation; reading any of
\* the five raises no error.
C21_ZoneTokens ==
    \A i \in 1..Len(hist) :
        \A j \in CallsOf(hist[i], {"age_exceeds"}) :
            LET e == hist[i].itrace[j]
                z == fs.timestamp.zone
            IN  (fs.exists /\ z.k \in FiveShapes /\ IsDuration(e.arg)) =>
                    /\ e.r # "E"
                    /\ (e.r = "T") <=>
                          (now - (fs.timestamp.wall - ZoneSeconds(z)) > DurationSeconds(e.arg))

\* the evaluations of after and of the items of time on a line
AnchorCalls(h) == CallsOf(h, {"after", "time"})

\* C22: after its start-of-line initialization the anchor is overwritten at
\* most once within a line, by after or time, also when --time lists several
\* intervals.
C22_AnchorWrittenOnce ==
    \A i \in 1..Len(hist) : hist[i].writes <= 1

\* C22 (amended): after its start-of-line initialization the anchor is
\* overwritten only by after and time, once by after and once for every
\* interval of --time that is tried: the intervals are tried in order up to the
\* first that passes, so every write but the last belongs to an interval that
\* failed, and no other condition changes the anchor.
C22_AnchorWrittenPerInterval ==
    \A i \in 1..Len(hist) :
        LET h == hist[i]
        IN  /\ h.writes = Cardinality({j \in AnchorCalls(h) : h.itrace[j].r # "E"})
            /\ \A j \in 1..Len(h.itrace) :
                   j \notin AnchorCalls(h) => h.itrace[j].after = h.itrace[j].before
            /\ \A j, k \in AnchorCalls(h) : j < k => h.itrace[j].r = "F"
            /\ Cardinality(AnchorCalls(h)) <= 1 => h.writes <= 1

\* C22 witness: a line whose first interval failed after moving the anchor and
\* whose second interval passed with another anchor
C22_Witness ==
    \E i \in 1..Len(hist) :
        \E j, k \in AnchorCalls(hist[i]) :
            /\ j < k
            /\ hist[i].itrace[j].r = "F"
            /\ hist[i].itrace[k].r = "T"
            /\ hist[i].itrace[j].after # hist[i].itrace[k].after
            /\ hist[i].writes = 2

ListOptions == {"subnet", "not_subnet", "time", "not_time", "weekday", "not_weekday"}

\* an item that the element type of the list option does not accept
MalformedItem(opt, text) ==
    IF opt \in {"subnet", "not_subnet"} THEN text.k # "net"
    ELSE ~WellFormed(TextKind(opt), text)

\* C23: a list condition is the disjunction of the comma-separated items of all
\* its occurrences, and an item that does not parse makes the evaluation of the
\* condition fail with the parse error wherever it stands in the list, also
\* behind an item that passed; it is never skipped.
C23_ListParseFailures ==
    \A i \in 1..Len(hist) :
        \A j \in 1..Len(hist[i].ctrace) :
            LET name == hist[i].ctrace[j].n
                items == Items(hist[i], name)
            IN  (name \in ListOptions /\ \E k \in 1..Len(items) : MalformedItem(name, items[k]))
                    => hist[i].ctrace[j].r = "E"

\* C24: `assert not arguments` never fails. When match has returned True for a
\* line, the argument dictionary holds nothing but `stop`: verbose, utc_offset,
\* every condition name and every not_ name have been popped, whatever options
\* the line carries; no invocation ends with an AssertionError.
C24_AssertionHolds ==
    /\ pc = "matched" => DOMAIN arguments \subseteq {"stop"}
    /\ \A r \in 1..Len(results) : results[r].err # "AssertionError"

\* C24 witness: a matched line with three different options, one of them
\* inverted and one of them --stop
C24_Witness ==
    /\ pc = "matched"
    /\ DOMAIN arguments = {"stop"}
    /\ Cardinality(Opts(hist[Len(hist)].words)) >= 3
    /\ "stop" \in Opts(hist[Len(hist)].words)
    /\ \E o \in Opts(hist[Len(hist)].words) : StartsWithNot(o)

\* C25: a line `--time L --not-time L` never matches. An interval on which
\* time succeeds contains now relative to the anchor it has just set
\* (anchor + start <= now < anchor + end), so not_time, which tests membership
\* against that anchor, fails.
C25_TimeThenNotTime ==
    \A i \in 1..Len(hist) :
        LET h == hist[i]
            L == Items(h, "time")
        IN  /\ \A j \in Calls(h, "time") :
                   (h.itrace[j].r = "T" /\ ZoneKnown(h)) =>
                       Inside(TimeAnchor(h, h.itrace[j].arg), h.itrace[j].arg)
            /\ (L # <<>> /\ Items(h, "not_time") = L) =>
                   /\ h.ret # "True"
                   /\ Evaluated(h, "time", "T") => Evaluated(h, "not_time", "F")

\* C25 witness: `--time 14..14:46:05,38..39 --not-time 14..14:46:05,38..39` on
\* Monday 14:46:05: the second interval passes time, and not_time fails on it
C25_Witness ==
    \E i \in 1..Len(hist) :
        /\ Items(hist[i], "time") = <<Iv(Hr(14), NowTod), IvH(38, 39)>>
        /\ Items(hist[i], "not_time") = Items(hist[i], "time")
        /\ Evaluated(hist[i], "time", "T")
        /\ Evaluated(hist[i], "not_time", "F")
        /\ hist[i].ret = "False"

\* an interval whose end is not after its start
EmptyInterval(iv) == IsInterval(iv) /\ Seconds(iv.end) <= Seconds(iv.start)

\* C26: an interval whose end is less than or equal to its start is accepted
\* by the parser and is empty: whatever the anchor, it never satisfies time and
\* it is never the interval that makes not_time fail.
C26_EmptyIntervals ==
    \A i \in 1..Len(hist) :
        LET h == hist[i]
        IN  /\ \A j \in CallsOf(h, {"time", "not_time"}) :
                   EmptyInterval(h.itrace[j].arg) => h.itrace[j].r = "F"
            /\ (\A k \in 1..Len(Items(h, "time")) : EmptyInterval(Items(h, "time")[k])) =>
                   ~Evaluated(h, "time", "T") /\ ~Evaluated(h, "time", "E")
            /\ (\A k \in 1..Len(Items(h, "not_time")) : EmptyInterval(Items(h, "not_time")[k])) =>
                   ~Evaluated(h, "not_time", "F") /\ ~Evaluated(h, "not_time", "E")

\* C26 witness: with the anchor moved to Sunday by `--after 38`, `--not-time
\* 39..14,15..14` passes on Monday 14:46:05 after both intervals were tested
C26_Witness ==
    \E i \in 1..Len(hist) :
        /\ Items(hist[i], "after") = <<Hr(38)>>
        /\ Items(hist[i], "not_time") = <<IvH(39, 14), IvH(15, 14)>>
        /\ Cardinality(Calls(hist[i], "not_time")) = 2
        /\ Evaluated(hist[i], "not_time", "T")
        /\ hist[i].ret = "True"

====
